---- MODULE Spec2Model ----
(***************************************************************************)
(* Model of flexget/event.py: the process-wide event registry _events, a   *)
(* defaultdict(list) from event type to a list of Event records, and the   *)
(* operations add_event_handler, get_events, remove_event_handler,         *)
(* remove_event_handlers and fire_event.                                   *)
(*                                                                         *)
(* fire_event calls back into handler code.  A fire is therefore a         *)
(* sequence of steps: FireBegin (membership test, get_events, start of     *)
(* the for loop), FireInvoke (the loop takes the next list item and calls  *)
(* it), the handler's own registry calls, HandlerReturn / HandlerRaise,    *)
(* and FireEnd (the loop is exhausted, the return expression is            *)
(* evaluated).  The loop iterates the live list object by index.           *)
(***************************************************************************)
EXTENDS Integers, Sequences, FiniteSets, TLC

\* ---------------------------------------------------------------- bounds
MaxRegs == 3          \* successful registrations in one behaviour
MaxNested == 2        \* registry calls made by the handlers of one fire

\* ------------------------------------------------------- program values
DefaultPriority == 128

None == "None"
EmptyTuple == "()"

\* An enum member and the string holding its value are different dict keys.
EventTypes == { [kind |-> "enum", name |-> "forget"],
                [kind |-> "str",  name |-> "forget"] }
NoType == [kind |-> "none", name |-> ""]

\* Callables: id is the object identity (the `is` test), target is what
\* == compares.  Two plain functions and one bound-method object.
Funcs == { [id |-> 1, target |-> "f"],
           [id |-> 2, target |-> "g"],
           [id |-> 3, target |-> "o.m"] }
NoFunc == [id |-> 0, target |-> ""]

\* Two evaluations of o.m: distinct bound-method objects that compare
\* equal (same __self__ and __func__).
BoundMethods == { [id |-> 3, target |-> "o.m"],
                  [id |-> 4, target |-> "o.m"] }

Priorities == {50, DefaultPriority}

\* Positional argument tuples and keyword arguments handed to fire_event.
ArgTuples == { <<>>, <<"1", "ctx">> }
KwArgs == { "{k:1}" }
\* What a handler may return.
Results == { None, "0", "5" }

\* ------------------------------------------------------------ the state
VARIABLES
  events,     \* _events: function from the known event types to lists
  nextId,     \* identity of the next Event object constructed
  fire,       \* the fire_event call in progress, if any, with the
              \* handler invocations it has made so far (calls)
  last,       \* the operation that completed most recently
  regCalled   \* event types with an add_event_handler call since start
              \* or since their last remove_event_handlers call

vars == <<events, nextId, fire, last, regCalled>>

\* ---------------------------------------------------------- class Event
Event(event_type, func, priority, id) ==
  [event_type |-> event_type, func |-> func, priority |-> priority, id |-> id]

EventEq(a, b) == a.priority = b.priority
EventLt(a, b) == a.priority < b.priority
EventGt(a, b) == a.priority > b.priority

\* func == func and func is func on callables
FuncEq(f, g) == f.target = g.target
FuncIs(f, g) == f.id = g.id

\* ------------------------------------------------------ dict operations
Known(ev, t) == t \in DOMAIN ev

DictSet(ev, t, lst) ==
  [k \in (DOMAIN ev) \cup {t} |-> IF k = t THEN lst ELSE ev[k]]

\* defaultdict.__getitem__: a missing key is inserted with an empty list
DefaultGet(ev, t) == IF Known(ev, t) THEN ev ELSE DictSet(ev, t, <<>>)

DictClearEntry(ev, t) == IF Known(ev, t) THEN DictSet(ev, t, <<>>) ELSE ev

\* dict.pop(key, None)
DictPop(ev, t) == [k \in (DOMAIN ev) \ {t} |-> ev[k]]

\* ------------------------------------------------------ list operations
Reverse(s) == [i \in 1..Len(s) |-> s[Len(s) + 1 - i]]

\* One step of the insertion sort list.sort runs on short lists: the
\* pivot goes before the first item it is less than.
RECURSIVE BinaryInsert(_, _)
BinaryInsert(s, x) ==
  IF s = <<>> THEN <<x>>
  ELSE IF EventLt(x, Head(s)) THEN <<x>> \o s
  ELSE <<Head(s)>> \o BinaryInsert(Tail(s), x)

RECURSIVE SortAsc(_)
SortAsc(s) ==
  IF s = <<>> THEN <<>>
  ELSE BinaryInsert(SortAsc(SubSeq(s, 1, Len(s) - 1)), s[Len(s)])

ListSortReverseUnstable(s) == Reverse(SortAsc(s))

ListSortAscending(s) == SortAsc(s)

\* list.sort(reverse=True): reverse, stable ascending sort, reverse
ListSortReverse(s) == Reverse(SortAsc(Reverse(s)))

RECURSIVE IndexOfEq(_, _, _)
IndexOfEq(s, x, i) ==
  IF i > Len(s) THEN 0
  ELSE IF s[i].id = x.id \/ EventEq(s[i], x) THEN i
  ELSE IndexOfEq(s, x, i + 1)

\* list.remove(x): drops the first item that is x or compares equal to x
ListRemove(s, x) ==
  LET i == IndexOfEq(s, x, 1)
  IN IF i = 0 THEN s ELSE SubSeq(s, 1, i - 1) \o SubSeq(s, i + 1, Len(s))

\* ------------------------------------------------------------- records
IdleFire == [active |-> FALSE, event_type |-> NoType, origArgs |-> <<>>,
             args |-> <<>>, kw |-> "{}", idx |-> 0, running |-> FALSE,
             nested |-> 0, alias |-> FALSE, detached |-> <<>>,
             calls |-> <<>>]

\* A completed call: what was called with which arguments, how it ended
\* (outcome is "ok" or the exception raised), the value returned (ret for
\* fire_event; handlers for the Event of add_event_handler, the list of
\* get_events and the list dict.pop took out in remove_event_handlers).
Completed(op, t, f, outcome, handlers) ==
  [op |-> op, event_type |-> t, func |-> f, priority |-> 0, args |-> <<>>,
   kw |-> "{}", outcome |-> outcome, ret |-> None, handlers |-> handlers]

CompletedFire(t, args, kw, outcome, ret) ==
  [op |-> "fire_event", event_type |-> t, func |-> NoFunc, priority |-> 0,
   args |-> args, kw |-> kw, outcome |-> outcome, ret |-> ret,
   handlers |-> <<>>]

NoOp == Completed("none", NoType, NoFunc, "ok", <<>>)

Init ==
  /\ events = [t \in {} |-> <<>>]
  /\ nextId = 1
  /\ fire = IdleFire
  /\ last = NoOp
  /\ regCalled = {}


\* ------------------------------------------------ who may call, and how
\* Registry functions are called by the program between fires, or by the
\* handler that fire_event is currently running.
ProgramRuns == ~fire.active
HandlerRuns == fire.active /\ fire.running /\ fire.nested < MaxNested

\* a fire in progress counts the registry calls of its handlers
Touch(f) == IF f.active THEN [f EXCEPT !.nested = @ + 1] ELSE f

\* The list object the for loop of fire_event iterates: the list stored in
\* _events while the entry exists, the popped list object afterwards.
IterList ==
  IF fire.alias THEN events[fire.event_type] ELSE fire.detached

\* -------------------------------------------------- add_event_handler
AlreadyRegisteredFirstOnly(lst, func) ==
  Len(lst) > 0 /\ FuncEq(lst[1].func, func)

AlreadyRegisteredLastOnly(lst, func) ==
  Len(lst) > 0 /\ FuncEq(lst[Len(lst)].func, func)

AlreadyRegisteredAnyType(lst, func) ==
  \E t \in DOMAIN events :
    \E i \in 1..Len(events[t]) : FuncEq(events[t][i].func, func)

\* for event_ in _events[event_type]: if event_.func == func: raise
AlreadyRegistered(lst, func) ==
  \E i \in 1..Len(lst) : FuncEq(lst[i].func, func)

add_event_handler(event_type, func, priority) ==
  /\ LET ev == DefaultGet(events, event_type)
         lst == ev[event_type]
     IN IF AlreadyRegistered(lst, func)
        THEN /\ events' = ev
             /\ nextId' = nextId
             /\ last' = [Completed("add_event_handler", event_type, func,
                                   "ValueError", <<>>)
                            EXCEPT !.priority = priority]
        ELSE /\ nextId <= MaxRegs
             /\ LET event_ == Event(event_type, func, priority, nextId)
                IN /\ events' = DictSet(ev, event_type, Append(lst, event_))
                   /\ last' = [Completed("add_event_handler", event_type,
                                         func, "ok", <<event_>>)
                                  EXCEPT !.priority = priority]
             /\ nextId' = nextId + 1
  /\ regCalled' = regCalled \cup {event_type}
  /\ fire' = Touch(fire)

\* ----------------------------------------------------------- get_events
get_events(event_type) ==
  /\ IF ~Known(events, event_type)
     THEN /\ events' = events
          /\ last' = Completed("get_events", event_type, NoFunc, "KeyError",
                               <<>>)
     ELSE LET sorted == ListSortReverse(events[event_type])
          IN /\ events' = DictSet(events, event_type, sorted)
             /\ last' = Completed("get_events", event_type, NoFunc, "ok",
                                  sorted)
  /\ fire' = Touch(fire)
  /\ UNCHANGED <<nextId, regCalled>>

\* ------------------------------------------------ remove_event_handlers
remove_event_handlers(event_type) ==
  /\ events' = DictPop(events, event_type)
  /\ last' = Completed("remove_event_handlers", event_type, NoFunc, "ok",
                       IF Known(events, event_type) THEN events[event_type]
                       ELSE <<>>)
  /\ regCalled' = regCalled \ {event_type}
  /\ fire' = IF fire.active /\ fire.alias /\ fire.event_type = event_type
             THEN [Touch(fire) EXCEPT !.alias = FALSE,
                                      !.detached = events[event_type]]
             ELSE Touch(fire)
  /\ UNCHANGED nextId

\* ------------------------------------------------- remove_event_handler
\* for e in lst: if e.func is func: lst.remove(e)
\* The for loop reads the list by index while the body shortens it.
RECURSIVE RemoveLoop(_, _, _)
RemoveLoop(lst, i, func) ==
  IF i > Len(lst) THEN lst
  ELSE IF FuncIs(lst[i].func, func)
       THEN RemoveLoop(ListRemove(lst, lst[i]), i + 1, func)
       ELSE RemoveLoop(lst, i + 1, func)

remove_event_handler(event_type, func) ==
  /\ LET ev == DefaultGet(events, event_type)
     IN events' = DictSet(ev, event_type, RemoveLoop(ev[event_type], 1, func))
  /\ last' = Completed("remove_event_handler", event_type, func, "ok",
                       <<>>)
  /\ fire' = Touch(fire)
  /\ UNCHANGED <<nextId, regCalled>>

\* ----------------------------------------------------------- fire_event
ChainArgsTruthy(args, result) ==
  IF result \notin {None, "0"} THEN <<result>> \o SubSeq(args, 2, Len(args))
  ELSE args

\* if result is not None: args = (result,) + args[1:]
ChainArgs(args, result) ==
  IF result # None THEN <<result>> \o SubSeq(args, 2, Len(args)) ELSE args

\* return args and args[0]
FireReturn(args) == IF args = <<>> THEN EmptyTuple ELSE args[1]

FireUnknownInserts(event_type, args, kw) ==
  /\ ~fire.active
  /\ ~Known(events, event_type)
  /\ events' = DefaultGet(events, event_type)
  /\ last' = CompletedFire(event_type, args, kw, "ok", FireReturn(args))
  /\ UNCHANGED <<nextId, fire, regCalled>>

\* event_type not in _events: the body of the if is skipped
FireUnknown(event_type, args, kw) ==
  /\ ~fire.active
  /\ ~Known(events, event_type)
  /\ last' = CompletedFire(event_type, args, kw, "ok", FireReturn(args))
  /\ UNCHANGED <<events, nextId, fire, regCalled>>

FireBeginNoSort(event_type, args, kw) ==
  /\ ~fire.active
  /\ Known(events, event_type)
  /\ fire' = [active |-> TRUE, event_type |-> event_type, origArgs |-> args,
              args |-> args, kw |-> kw, idx |-> 0, running |-> FALSE,
              nested |-> 0, alias |-> TRUE, detached |-> <<>>,
              calls |-> <<>>]
  /\ last' = NoOp
  /\ UNCHANGED <<events, nextId, regCalled>>

\* event_type in _events: get_events sorts the list and the loop starts
FireBegin(event_type, args, kw) ==
  /\ ~fire.active
  /\ Known(events, event_type)
  /\ events' = DictSet(events, event_type,
                       ListSortReverse(events[event_type]))
  /\ fire' = [active |-> TRUE, event_type |-> event_type, origArgs |-> args,
              args |-> args, kw |-> kw, idx |-> 0, running |-> FALSE,
              nested |-> 0, alias |-> TRUE, detached |-> <<>>,
              calls |-> <<>>]
  /\ last' = NoOp
  /\ UNCHANGED <<nextId, regCalled>>

\* the loop takes the next item of the list and calls it
FireInvoke ==
  /\ fire.active /\ ~fire.running
  /\ fire.idx < Len(IterList)
  /\ fire' = [fire EXCEPT
                !.idx = @ + 1, !.running = TRUE,
                !.calls = Append(@, [event |-> IterList[fire.idx + 1],
                                     args |-> fire.args, kw |-> fire.kw,
                                     result |-> "running"])]
  /\ UNCHANGED <<events, nextId, last, regCalled>>

HandlerReturn(result) ==
  /\ fire.active /\ fire.running
  /\ fire' = [fire EXCEPT !.running = FALSE,
                          !.args = ChainArgs(fire.args, result),
                          !.calls[Len(fire.calls)].result = result]
  /\ last' = NoOp
  /\ UNCHANGED <<events, nextId, regCalled>>

HandlerRaiseSwallowed ==
  /\ fire.active /\ fire.running
  /\ fire' = [fire EXCEPT !.running = FALSE,
                          !.calls[Len(fire.calls)].result = "raise"]
  /\ last' = NoOp
  /\ UNCHANGED <<events, nextId, regCalled>>

\* an exception in the handler leaves fire_event
HandlerRaise ==
  /\ fire.active /\ fire.running
  /\ fire' = IdleFire
  /\ last' = CompletedFire(fire.event_type, fire.origArgs, fire.kw, "raised",
                           None)
  /\ UNCHANGED <<events, nextId, regCalled>>

\* the list is exhausted: return args and args[0]
FireEnd ==
  /\ fire.active /\ ~fire.running
  /\ fire.idx >= Len(IterList)
  /\ fire' = IdleFire
  /\ last' = CompletedFire(fire.event_type, fire.origArgs, fire.kw, "ok",
                           FireReturn(fire.args))
  /\ UNCHANGED <<events, nextId, regCalled>>

\* ------------------------------------------------------- specification
\* The program calls the registry between fires; the handlers it fires
\* return a value or raise, and leave the registry alone.
Next ==
  \/ \E t \in EventTypes, f \in Funcs, p \in Priorities :
       ProgramRuns /\ add_event_handler(t, f, p)
  \/ \E t \in EventTypes : ProgramRuns /\ get_events(t)
  \/ \E t \in EventTypes : ProgramRuns /\ remove_event_handlers(t)
  \/ \E t \in EventTypes, f \in Funcs :
       ProgramRuns /\ remove_event_handler(t, f)
  \/ \E t \in EventTypes, a \in ArgTuples, kw \in KwArgs :
       FireUnknown(t, a, kw)
  \/ \E t \in EventTypes, a \in ArgTuples, kw \in KwArgs :
       FireBegin(t, a, kw)
  \/ FireInvoke
  \/ \E r \in Results : HandlerReturn(r)
  \/ HandlerRaise
  \/ FireEnd

Spec == Init /\ [][Next]_vars

\* The same program with handlers that call the registry while fire_event
\* runs them.
NextReentrant ==
  \/ Next
  \/ \E t \in EventTypes, f \in Funcs, p \in Priorities :
       HandlerRuns /\ add_event_handler(t, f, p)
  \/ \E t \in EventTypes : HandlerRuns /\ get_events(t)
  \/ \E t \in EventTypes : HandlerRuns /\ remove_event_handlers(t)
  \/ \E t \in EventTypes, f \in Funcs :
       HandlerRuns /\ remove_event_handler(t, f)

SpecReentrant == Init /\ [][NextReentrant]_vars

\* Handlers that call add_event_handler, remove_event_handler and
\* get_events for the event type being fired, and nothing else.
NextSameType ==
  \/ Next
  \/ \E f \in Funcs, p \in Priorities :
       HandlerRuns /\ add_event_handler(fire.event_type, f, p)
  \/ HandlerRuns /\ get_events(fire.event_type)
  \/ \E f \in Funcs :
       HandlerRuns /\ remove_event_handler(fire.event_type, f)

SpecSameType == Init /\ [][NextSameType]_vars

\* Handlers whose only registry call is remove_event_handler, for the
\* event type being fired and the callback of a record this fire has
\* already invoked (the running handler's own included).
InvokedFuncs == {fire.calls[k].event.func : k \in 1..Len(fire.calls)}

NextSelfRemove ==
  \/ Next
  \/ \E f \in Funcs :
       /\ HandlerRuns
       /\ f \in InvokedFuncs
       /\ remove_event_handler(fire.event_type, f)

SpecSelfRemove == Init /\ [][NextSelfRemove]_vars

\* The registry functions called with callables among which two are
\* equal without being identical.
NextMethods ==
  \/ \E t \in EventTypes, f \in Funcs \cup BoundMethods, p \in Priorities :
       ProgramRuns /\ add_event_handler(t, f, p)
  \/ \E t \in EventTypes : ProgramRuns /\ get_events(t)
  \/ \E t \in EventTypes : ProgramRuns /\ remove_event_handlers(t)
  \/ \E t \in EventTypes, f \in Funcs \cup BoundMethods :
       ProgramRuns /\ remove_event_handler(t, f)

SpecMethods == Init /\ [][NextMethods]_vars


\* ==================================================== claims C1 .. C10
\* Helpers of the statements below.
Occurrences(seq, x) == Cardinality({k \in 1..Len(seq) : seq[k] = x})

SamePriority(a, b) == a.priority = b.priority

\* earlier in priority order: higher priority, or the same priority and
\* registered (constructed) earlier
RunsBefore(a, b) ==
  \/ a.priority > b.priority
  \/ SamePriority(a, b) /\ a.id < b.id

InPriorityOrder(seq) ==
  \A j, k \in 1..Len(seq) : j < k => RunsBefore(seq[j], seq[k])

Invoked(c) == [k \in 1..Len(c) |-> c[k].event]

HasFunc(lst, f) == \E i \in 1..Len(lst) : lst[i].func = f

\* C1: a fire_event on a known event type whose handlers all return
\* normally and make no registry call invokes every record registered
\* under that type exactly once, in descending priority order, records of
\* equal priority in registration order.
FireReturns == fire.active /\ last'.op = "fire_event" /\ last'.outcome = "ok"

C1_FireInvokesAllInOrder ==
  [][ ( FireReturns /\ fire.nested = 0 )
      => LET lst == events[fire.event_type]
             inv == Invoked(fire.calls)
         IN /\ Len(inv) = Len(lst)
            /\ \A i \in 1..Len(lst) : Occurrences(inv, lst[i]) = 1
            /\ InPriorityOrder(inv) ]_vars

\* every handler of a three-handler list has returned; two share a
\* priority, and the record registered last did not run last
C1_Witness ==
  /\ fire.active /\ ~fire.running /\ fire.nested = 0
  /\ Len(fire.calls) = 3 /\ Len(events[fire.event_type]) = 3
  /\ \E j, k \in 1..3 :
       j # k /\ SamePriority(fire.calls[j].event, fire.calls[k].event)
  /\ \E j, k \in 1..3 :
       fire.calls[j].event.priority > fire.calls[k].event.priority
  /\ fire.calls[3].event.id < fire.calls[2].event.id

\* C2: with at least one positional argument, each invoked handler gets
\* as first argument the latest earlier return value that is not None (a1
\* if there is none), the remaining positional arguments and the keyword
\* arguments as supplied, and fire_event returns the first argument as it
\* stands after the last handler.
RECURSIVE LatestValue(_, _, _)
LatestValue(c, k, a1) ==
  IF k = 0 THEN a1
  ELSE IF c[k].result \in Results \ {None} THEN c[k].result
  ELSE LatestValue(c, k - 1, a1)

C2_ArgumentChaining ==
  [][ /\ ( fire'.active /\ Len(fire'.origArgs) >= 1 )
        => \A k \in 1..Len(fire'.calls) :
             LET call == fire'.calls[k]
                 given == fire'.origArgs
             IN /\ Len(call.args) = Len(given)
                /\ call.args[1] = LatestValue(fire'.calls, k - 1, given[1])
                /\ \A i \in 2..Len(given) : call.args[i] = given[i]
                /\ call.kw = fire'.kw
      /\ ( FireReturns /\ Len(fire.origArgs) >= 1 )
        => last'.ret = LatestValue(fire.calls, Len(fire.calls),
                                   fire.origArgs[1]) ]_vars

\* fire_event(e, "1", "ctx") over three handlers returning "5", "0" and
\* None has returned "0"
C2_Witness ==
  /\ last.op = "fire_event" /\ last.outcome = "ok"
  /\ last.args = <<"1", "ctx">> /\ last.ret = "0"
  /\ Len(events[last.event_type]) = 3

\* C3: get_events on a known event type returns exactly the records
\* registered under it, each once, by non-increasing priority, equal
\* priorities in registration order; the returned list is the entry, and
\* a second call right after it returns the same sequence.
C3_SortedHandlers ==
  [][ /\ ( last'.op = "get_events" /\ last'.outcome = "ok" )
        => LET t == last'.event_type
               r == last'.handlers
           IN /\ Known(events, t)
              /\ Len(r) = Len(events[t])
              /\ \A i \in 1..Len(r) : Occurrences(events[t], r[i]) = 1
              /\ InPriorityOrder(r)
              /\ events'[t] = r
      /\ ( /\ last.op = "get_events" /\ last.outcome = "ok"
           /\ last'.op = "get_events" /\ last'.event_type = last.event_type )
        => last'.handlers = last.handlers ]_vars

C3_Witness ==
  /\ last.op = "get_events" /\ last.outcome = "ok"
  /\ Len(last.handlers) = 3
  /\ last.handlers[1].priority > last.handlers[2].priority
  /\ SamePriority(last.handlers[2], last.handlers[3])
  /\ last.handlers[1].id = 3

\* C4: add_event_handler for a callback that a record of the event type
\* already holds raises ValueError whatever the priorities, and leaves
\* the whole registry as it was.
C4_DuplicateRejected ==
  [][ ( /\ last'.op = "add_event_handler"
        /\ Known(events, last'.event_type)
        /\ HasFunc(events[last'.event_type], last'.func) )
      => /\ last'.outcome = "ValueError"
         /\ events' = events
         /\ nextId' = nextId ]_vars

C4_Witness ==
  /\ last.op = "add_event_handler" /\ last.outcome = "ValueError"
  /\ Len(events[last.event_type]) = 2
  /\ \E i \in 1..2 : /\ events[last.event_type][i].func = last.func
                     /\ events[last.event_type][i].priority # last.priority
  /\ \E t \in DOMAIN events : t # last.event_type /\ events[t] # <<>>


\* C5: after remove_event_handler(e, H) with H registered under e, no
\* record of e holds H.
C5_HandlerGone ==
  [][ ( /\ last'.op = "remove_event_handler"
        /\ Known(events, last'.event_type)
        /\ HasFunc(events[last'.event_type], last'.func) )
      => ~HasFunc(events'[last'.event_type], last'.func) ]_vars

\* C6: remove_event_handler(e, H) takes out at most one record and only
\* the one holding H: the records of e holding another callback are all
\* still there, in the same relative order.
Others(lst, f) == SelectSeq(lst, LAMBDA x : x.func # f)

C6_OthersKept ==
  [][ ( /\ last'.op = "remove_event_handler"
        /\ Known(events, last'.event_type) )
      => LET t == last'.event_type
         IN /\ Others(events'[t], last'.func) = Others(events[t], last'.func)
            /\ Len(events'[t]) >= Len(events[t]) - 1 ]_vars

\* C7: remove_event_handler(e, f) with e unknown, or f not registered
\* under e, raises nothing and leaves the registry as it was: the same
\* known event types, the same list under each.
C7_RemoveAbsentNoOp ==
  [][ ( /\ last'.op = "remove_event_handler"
        /\ \/ ~Known(events, last'.event_type)
           \/ ~HasFunc(events[last'.event_type], last'.func) )
      => /\ last'.outcome = "ok"
         /\ DOMAIN events' = DOMAIN events
         /\ events' = events ]_vars

\* C8: get_events(e) raises KeyError when add_event_handler was not
\* called for e since the start or since the last remove_event_handlers
\* of e, and returns the empty list without error when e was registered
\* and its list has been emptied by remove_event_handler calls.
C8_StrictLookup ==
  last.op = "get_events" =>
    /\ last.event_type \notin regCalled => last.outcome = "KeyError"
    /\ (last.event_type \in regCalled /\ events[last.event_type] = <<>>)
         => (last.outcome = "ok" /\ last.handlers = <<>>)

\* C9: remove_event_handlers(e) deletes the entry of e and nothing else,
\* also when e is unknown; a get_events(e) right after it raises KeyError
\* and a fire_event(e) right after it invokes no handler.
C9_RemoveAllDeletesEntry ==
  [][ /\ ( last'.op = "remove_event_handlers" )
        => LET t == last'.event_type
           IN /\ last'.outcome = "ok"
              /\ ~Known(events', t)
              /\ DOMAIN events' = (DOMAIN events) \ {t}
              /\ \A t2 \in DOMAIN events' : events'[t2] = events[t2]
      /\ ( last.op = "remove_event_handlers" /\ last'.op = "get_events"
           /\ last'.event_type = last.event_type )
        => last'.outcome = "KeyError"
      /\ ( last.op = "remove_event_handlers" /\ ~fire.active )
        => /\ fire'.active => fire'.event_type # last.event_type
           /\ ( last'.op = "fire_event"
                /\ last'.event_type = last.event_type )
                => (last'.outcome = "ok" /\ ~fire'.active) ]_vars

C9_Witness ==
  /\ last.op = "remove_event_handlers"
  /\ Len(last.handlers) = 2
  /\ ~Known(events, last.event_type)
  /\ \E t \in DOMAIN events : Len(events[t]) = 1

\* C10: fire_event with a first argument a1 on an unknown event type
\* raises nothing, invokes no handler, returns a1 and leaves the registry
\* as it was; a get_events for the type right after it raises KeyError.
C10_LenientFire ==
  [][ /\ ( /\ ~fire.active
           /\ last'.op = "fire_event"
           /\ ~Known(events, last'.event_type)
           /\ Len(last'.args) >= 1 )
        => /\ last'.outcome = "ok"
           /\ last'.ret = last'.args[1]
           /\ ~fire'.active
           /\ events' = events
      /\ ( ~fire.active /\ fire'.active )
        => Known(events, fire'.event_type)
      /\ ( /\ last.op = "fire_event"
           /\ ~Known(events, last.event_type)
           /\ last'.op = "get_events"
           /\ last'.event_type = last.event_type )
        => last'.outcome = "KeyError" ]_vars

C10_Witness ==
  /\ last.op = "fire_event" /\ last.outcome = "ok"
  /\ last.args = <<"1", "ctx">> /\ last.ret = "1"
  /\ ~Known(events, last.event_type)
  /\ \E t \in DOMAIN events : Len(events[t]) >= 1


\* =================================================== claims C11 .. C19
Records(lst) == {lst[i] : i \in 1..Len(lst)}

\* C11: fire_event called with no positional argument returns None,
\* whether the event type is unknown, has no handlers, or has handlers,
\* whatever they return.
C11_NoArgsReturnsNone ==
  (last.op = "fire_event" /\ last.outcome = "ok" /\ last.args = <<>>)
    => last.ret = None

\* C12: when a handler raises, fire_event ends with that exception; the
\* loop goes on only after a handler that returned a value; the handlers
\* before the failing one were each invoked once and none after it; and
\* the fire leaves the set of records of the event type as it was.
C12_HandlerFailurePropagates ==
  [][ /\ ( fire.running /\ ~fire'.running /\ fire'.active )
        => fire'.calls[Len(fire'.calls)].result \in Results
      /\ ( fire.running /\ ~fire'.active )
        => /\ last'.op = "fire_event" /\ last'.outcome = "raised"
           /\ last'.event_type = fire.event_type
           /\ events' = events
           /\ fire.nested = 0 =>
                Invoked(fire.calls) =
                  SubSeq(events[fire.event_type], 1, Len(fire.calls))
      /\ ( ~fire.active /\ fire'.active )
        => /\ Records(events'[fire'.event_type])
                = Records(events[fire'.event_type])
           /\ Len(events'[fire'.event_type]) = Len(events[fire'.event_type])
      /\ ( fire.active /\ fire'.active /\ fire'.nested = 0 )
        => events' = events ]_vars

\* a fire over three handlers ended with the exception of a handler
C12_Witness ==
  /\ last.op = "fire_event" /\ last.outcome = "raised"
  /\ last.args = <<"1", "ctx">>
  /\ Len(events[last.event_type]) = 3

\* C13: in every reachable registry state no two records of one event
\* type hold the same callback.
C13_UniqueCallbacks ==
  \A t \in DOMAIN events :
    \A i, j \in 1..Len(events[t]) :
      i # j => events[t][i].func # events[t][j].func

\* a registration was rejected on a list of three records
C13_Witness ==
  /\ last.op = "add_event_handler" /\ last.outcome = "ValueError"
  /\ Len(events[last.event_type]) = 3


\* C14: within one fire_event call no record is invoked twice, also when
\* the handlers call add_event_handler, remove_event_handler or
\* get_events for the event type being fired.
C14_AtMostOnce ==
  \A j, k \in 1..Len(fire.calls) :
    j # k => fire.calls[j].event # fire.calls[k].event


\* C17: when handlers remove themselves or already invoked handlers with
\* remove_event_handler during a fire, every record still registered when
\* fire_event returns (those were all registered when it started) has
\* been invoked by that fire.
C17_OthersStillInvoked ==
  [][ FireReturns
      => Records(events[fire.event_type])
           \subseteq Records(Invoked(fire.calls)) ]_vars


\* C15: add_event_handler(e, f, p) succeeds whenever no record of e holds
\* a callback identical to f: it appends one record with event type e,
\* callback f and priority p at the end of e's list, creating the entry
\* if e was unknown, leaves the other entries alone and returns the
\* record.
ListOf(ev, t) == IF Known(ev, t) THEN ev[t] ELSE <<>>

C15_RegisterByIdentity ==
  [][ ( /\ last'.op = "add_event_handler"
        /\ ~HasFunc(ListOf(events, last'.event_type), last'.func) )
      => LET t == last'.event_type
             old == ListOf(events, t)
         IN /\ last'.outcome = "ok"
            /\ Len(last'.handlers) = 1
            /\ last'.handlers[1].event_type = t
            /\ last'.handlers[1].func = last'.func
            /\ last'.handlers[1].priority = last'.priority
            /\ Known(events', t)
            /\ events'[t] = Append(old, last'.handlers[1])
            /\ \A t2 \in EventTypes \ {t} :
                 /\ Known(events', t2) <=> Known(events, t2)
                 /\ Known(events, t2) => events'[t2] = events[t2] ]_vars


\* C16: every fire_event sorts the list again before it invokes anything:
\* the loop starts on a list holding the same records in priority order
\* (higher priority first, equal priorities in registration order), so a
\* record appended since the last fire runs at the position of its
\* priority, and each invocation takes the record at the next position of
\* that list; a fire_event that follows a successful add_event_handler on
\* the same event type finds the type known, with the new record in the
\* list it iterates.
C16_ResortedOnEveryFire ==
  [][ /\ ( ~fire.active /\ fire'.active )
        => LET t == fire'.event_type
           IN /\ InPriorityOrder(events'[t])
              /\ Records(events'[t]) = Records(events[t])
              /\ Len(events'[t]) = Len(events[t])
      /\ ( fire.active /\ ~fire.running /\ fire'.running /\ fire.nested = 0 )
        => LET k == Len(fire'.calls)
           IN /\ k = Len(fire.calls) + 1
              /\ k <= Len(events[fire.event_type])
              /\ fire'.calls[k].event = events[fire.event_type][k]
      /\ ( /\ last.op = "add_event_handler" /\ last.outcome = "ok"
           /\ ~fire.active )
        => /\ ~( last'.op = "fire_event"
                 /\ last'.event_type = last.event_type )
           /\ ( fire'.active /\ fire'.event_type = last.event_type )
                => last.handlers[1] \in Records(events'[last.event_type])
    ]_vars

\* the record registered last (after the other two were in the list) has
\* run second: after the earlier record of its priority, before the
\* record of lower priority
C16_Witness ==
  /\ fire.active /\ ~fire.running
  /\ Len(fire.calls) = 3
  /\ fire.calls[1].event.id = 1 /\ fire.calls[1].event.priority = 128
  /\ fire.calls[2].event.id = 3 /\ fire.calls[2].event.priority = 128
  /\ fire.calls[3].event.id = 2 /\ fire.calls[3].event.priority = 50

\* C18: every handler is invoked with as many positional arguments as
\* fire_event was called with.
C18_SameArity ==
  \A k \in 1..Len(fire.calls) :
    Len(fire.calls[k].args) = Len(fire.origArgs)

\* C19: a call on event type e leaves every other entry of _events as it
\* was (known or unknown, and its list), an enum member and the string of
\* its value being different keys; add_event_handler raises only for a
\* callback already in the list of e itself.
OpType == IF ~fire.active /\ fire'.active THEN fire'.event_type
          ELSE last'.event_type

C19_TypesIndependent ==
  [][ /\ IF fire.active
         THEN events' = events
         ELSE \A t2 \in EventTypes \ {OpType} :
                /\ Known(events', t2) <=> Known(events, t2)
                /\ Known(events, t2) => events'[t2] = events[t2]
      /\ ( /\ last'.op = "add_event_handler"
           /\ \A i \in 1..Len(ListOf(events, last'.event_type)) :
                ~FuncEq(ListOf(events, last'.event_type)[i].func,
                        last'.func) )
        => last'.outcome = "ok" ]_vars

\* the callback just registered is registered under both event types
C19_Witness ==
  /\ last.op = "add_event_handler" /\ last.outcome = "ok"
  /\ \A t \in EventTypes :
       Known(events, t) /\ HasFunc(events[t], last.func)
  /\ \E t \in EventTypes : Len(events[t]) = 2

====
